---- MODULE Spec2Model ----
(***************************************************************************)
(* Model of vulkanoob: the instance wrapper (src/src/instance.rs), the     *)
(* physical-device wrapper (src/src/device.rs) and the device-filter       *)
(* builder (src/src/lib.rs).                                               *)
(*                                                                         *)
(* Five specifications share the module, one per entry point:              *)
(*   Spec          EasyInstance::select_physical_device                    *)
(*   SpecQueue     EasyPhysicalDevice::setup_single_queue_device           *)
(*   SpecFilter    easy_device_filter                                      *)
(*   SpecInstance  EasyInstance::new / EasyInstance::with_debug_config     *)
(*   SpecCallback  the debug callback that with_debug_config registers     *)
(* The variables of the entry points a specification does not exercise     *)
(* stay at their initial values.                                           *)
(***************************************************************************)
EXTENDS Integers, Sequences, FiniteSets

\* ---------------------------------------------------------------------
\* Bounds of the model
\* ---------------------------------------------------------------------

\* Largest number of physical devices the instance enumerates.
MaxDevices == 3

\* Largest rank a caller's preference assigns to a device or queue family.
MaxRank == 2

\* Largest number of queue families a physical device has.
MaxFamilies == 3

\* Largest major, minor and patch numbers of a device's Vulkan API version.
MaxMajor == 3

MaxMinor == 1

MaxPatch == 1

\* Largest number of messages the Vulkan implementation hands to the debug
\* callback.
MaxMessages == 2

\* Largest number of queues Device::new hands back for a one-queue request
\* (more than one would be a bug of the binding or of the driver).
MaxQueuesReturned == 2

\* ---------------------------------------------------------------------
\* Values shared by the entry points
\* ---------------------------------------------------------------------

\* std::cmp::Ordering
Ordering == {"Less", "Equal", "Greater"}

\* Ord::cmp on integers, used to build the callers' preference functions.
Cmp(x, y) == IF x < y THEN "Less" ELSE IF x > y THEN "Greater" ELSE "Equal"

\* Option<T>: None is the empty sequence, Some(x) the one-element sequence.
None == << >>

Some(x) == << x >>

IsSome(o) == Len(o) = 1

Unwrap(o) == o[1]

\* Result<Option<T>>: Ok(o) and Err; Pending before the call has returned.
Ok(o) == [tag |-> "Ok", val |-> o]

Err == [tag |-> "Err", val |-> None]

Pending == [tag |-> "Pending", val |-> None]

\* The call aborted by panic instead of returning.
Panic == [tag |-> "Panic", val |-> None]

\* Names of vulkano::instance::Features fields the model tells apart.
FeatureNames == {"robust_buffer_access", "geometry_shader"}

\* Names of vulkano::device::DeviceExtensions fields the model tells apart.
DeviceExtensionNames == {"khr_swapchain", "khr_maintenance1"}

\* ---------------------------------------------------------------------
\* State
\* ---------------------------------------------------------------------

VARIABLES
    physical_devices,   \* PhysicalDevice::enumerate(&self.instance), in order
    filter,             \* select_physical_device: the caller's filter
    preference,         \* select_physical_device: the caller's preference
    pc,                 \* position in select_physical_device
    next_device,        \* index of the device the for loop examines next
    favorite_device,    \* let mut favorite_device
    select_result,      \* value returned by select_physical_device
    select_trace,       \* log records and closure calls made, in order
    wrapped_device,     \* EasyPhysicalDevice::device
    queue_families,     \* number of queue families of the wrapped device
    queue_args,         \* arguments of setup_single_queue_device
    device_new_calls,   \* requests made to Device::new, in order
    device_new_returns, \* what Device::new answered to each request
    queue_result,       \* value returned by setup_single_queue_device
    filter_args,        \* arguments easy_device_filter captured in its closure
    filter_device,      \* device the closure was called on
    filter_accepts,     \* what the closure returned for that device
    log_max_level,      \* log::max_level(), the logger's maximum level
    instance_args,      \* arguments and locals of the EasyInstance constructor
    instance_calls,     \* calls made to the Vulkan binding, in order
    instance_returns,   \* whether each of those calls succeeded
    instance_result,    \* value returned by the constructor
    callback_calls,     \* messages handed to the debug callback, in order
    log_calls           \* log! invocations made by the debug callback

selectVars == << physical_devices, filter, preference, pc, next_device,
                 favorite_device, select_result, select_trace >>

queueVars == << wrapped_device, queue_families, queue_args, device_new_calls,
                device_new_returns, queue_result >>

filterVars == << filter_args, filter_device, filter_accepts >>

instanceVars == << log_max_level, instance_args, instance_calls,
                   instance_returns, instance_result >>

callbackVars == << callback_calls, log_calls >>

vars == << selectVars, queueVars, filterVars, instanceVars, callbackVars >>

\* ---------------------------------------------------------------------
\* EasyInstance::select_physical_device
\* ---------------------------------------------------------------------

\* The devices of an enumeration of n devices, named by their position.
DeviceIds(n) == 1..n

\* An enumerated device, as far as select_physical_device reads it itself.
PhysicalDevice == [robust_buffer_access : BOOLEAN]

\* The enumerations of at most MaxDevices devices.
Enumerations ==
    UNION { [1..n -> PhysicalDevice] : n \in 0..MaxDevices }

\* Callers' filters over n devices: any predicate.
FilterInputs(n) == [1..n -> BOOLEAN]

\* A preference that compares the ranks a caller gives to the devices: these
\* are the strict weak orderings.
RankPreference(rank, n) ==
    [p \in (1..n) \X (1..n) |-> Cmp(rank[p[1]], rank[p[2]])]

\* A preference that scores its first argument with one table and its second
\* with another: not an ordering unless the two tables agree.
SkewedPreference(left, right, n) ==
    [p \in (1..n) \X (1..n) |-> Cmp(left[p[1]], right[p[2]])]

\* Callers' preferences over n devices.
PreferenceInputs(n) ==
    { RankPreference(r, n) : r \in [1..n -> 0..MaxRank] }
    \cup { SkewedPreference(l, r, n) :
             l \in [1..n -> 0..1], r \in [1..n -> 0..1] }

\* Records of select_trace.
LogDevice(d) == [op |-> "log", device |-> d, other |-> 0]

CallFilter(d) == [op |-> "filter", device |-> d, other |-> 0]

CallPreference(d, best) == [op |-> "preference", device |-> d, other |-> best]

\* IsSelected with the filter's answer inverted.
IsSelected_Inverted(f, device) == ~f[device]

\* let is_selected = filter(device);
IsSelected(f, device) == f[device]

\* IsBetter with the arguments of the preference swapped.
IsBetter_SwappedArguments(pref, device, favorite) ==
    IF IsSome(favorite)
    THEN pref[<< Unwrap(favorite), device >>] = "Greater"
    ELSE TRUE

\* IsBetter that also replaces the favorite on a tie.
IsBetter_OnTieToo(pref, device, favorite) ==
    IF IsSome(favorite)
    THEN pref[<< device, Unwrap(favorite) >>] # "Less"
    ELSE TRUE

\* let is_better = if let Some(best_so_far) = favorite_device { .. } else { true }
IsBetter(pref, device, favorite) ==
    IF IsSome(favorite)
    THEN pref[<< device, Unwrap(favorite) >>] = "Greater"
    ELSE TRUE

\* The caller invokes select_physical_device(filter, preference).
SelectCall ==
    /\ pc = "idle"
    /\ \E f \in FilterInputs(Len(physical_devices)),
          p \in PreferenceInputs(Len(physical_devices)) :
          /\ filter' = f
          /\ preference' = p
    /\ favorite_device' = None
    /\ next_device' = 1
    /\ pc' = "loop"
    /\ UNCHANGED << physical_devices, select_result, select_trace >>
    /\ UNCHANGED << queueVars, filterVars, instanceVars, callbackVars >>

\* SelectEnsureFails that skips the device and goes on with the next one.
SelectEnsureFails_Continues ==
    /\ pc = "loop"
    /\ next_device <= Len(physical_devices)
    /\ ~physical_devices[next_device].robust_buffer_access
    /\ select_trace' = Append(select_trace, LogDevice(next_device))
    /\ next_device' = next_device + 1
    /\ UNCHANGED << physical_devices, filter, preference, pc, favorite_device,
                    select_result >>
    /\ UNCHANGED << queueVars, filterVars, instanceVars, callbackVars >>

\* One iteration of `for device in PhysicalDevice::enumerate(..)` on a device
\* that lacks robust buffer access: ensure! returns Err.
SelectEnsureFails ==
    /\ pc = "loop"
    /\ next_device <= Len(physical_devices)
    /\ ~physical_devices[next_device].robust_buffer_access
    /\ select_trace' = Append(select_trace, LogDevice(next_device))
    /\ select_result' = Err
    /\ pc' = "done"
    /\ UNCHANGED << physical_devices, filter, preference, next_device,
                    favorite_device >>
    /\ UNCHANGED << queueVars, filterVars, instanceVars, callbackVars >>

\* SelectExamine that asks the preference before it looks at the filter's
\* answer.
SelectExamine_PreferenceFirst ==
    /\ pc = "loop"
    /\ next_device <= Len(physical_devices)
    /\ physical_devices[next_device].robust_buffer_access
    /\ LET device == next_device
           is_selected == IsSelected(filter, device)
           is_better == IsBetter(preference, device, favorite_device)
           logged == Append(select_trace, LogDevice(device))
           filtered == Append(logged, CallFilter(device))
       IN  /\ favorite_device' =
                 IF is_selected /\ is_better THEN Some(device)
                 ELSE favorite_device
           /\ select_trace' =
                 IF IsSome(favorite_device)
                 THEN Append(filtered,
                             CallPreference(device, Unwrap(favorite_device)))
                 ELSE filtered
    /\ next_device' = next_device + 1
    /\ UNCHANGED << physical_devices, filter, preference, pc, select_result >>
    /\ UNCHANGED << queueVars, filterVars, instanceVars, callbackVars >>

\* One iteration of the loop on a device that has robust buffer access.
SelectExamine ==
    /\ pc = "loop"
    /\ next_device <= Len(physical_devices)
    /\ physical_devices[next_device].robust_buffer_access
    /\ LET device == next_device
           is_selected == IsSelected(filter, device)
           is_better == IsBetter(preference, device, favorite_device)
           logged == Append(select_trace, LogDevice(device))
           filtered == Append(logged, CallFilter(device))
       IN  /\ favorite_device' =
                 IF is_selected /\ is_better THEN Some(device)
                 ELSE favorite_device
           /\ select_trace' =
                 IF is_selected /\ IsSome(favorite_device)
                 THEN Append(filtered,
                             CallPreference(device, Unwrap(favorite_device)))
                 ELSE filtered
    /\ next_device' = next_device + 1
    /\ UNCHANGED << physical_devices, filter, preference, pc, select_result >>
    /\ UNCHANGED << queueVars, filterVars, instanceVars, callbackVars >>

\* The loop is over: Ok(favorite_device.map(EasyPhysicalDevice::new)).
SelectReturn ==
    /\ pc = "loop"
    /\ next_device > Len(physical_devices)
    /\ select_result' = Ok(favorite_device)
    /\ pc' = "done"
    /\ UNCHANGED << physical_devices, filter, preference, next_device,
                    favorite_device, select_trace >>
    /\ UNCHANGED << queueVars, filterVars, instanceVars, callbackVars >>

SelectInit ==
    /\ physical_devices \in Enumerations
    /\ filter = << >>
    /\ preference = << >>
    /\ pc = "idle"
    /\ next_device = 1
    /\ favorite_device = None
    /\ select_result = Pending
    /\ select_trace = << >>

\* select_physical_device is not exercised.
SelectUnused ==
    /\ physical_devices = << >>
    /\ filter = << >>
    /\ preference = << >>
    /\ pc = "unused"
    /\ next_device = 1
    /\ favorite_device = None
    /\ select_result = Pending
    /\ select_trace = << >>

\* ---------------------------------------------------------------------
\* EasyPhysicalDevice::setup_single_queue_device
\* ---------------------------------------------------------------------

\* self.device.queue_families(): the families in enumeration order.
QueueFamilies(n) == [i \in 1..n |-> i]

\* Iterator::filter: the elements the predicate accepts, in order.
IterFilter(iter, f) ==
    LET Accepts(x) == f[x]
    IN  SelectSeq(iter, Accepts)

\* MaxByPair that keeps the earlier element on a tie.
MaxByPair_KeepsFirstOnTie(v1, v2, compare) ==
    IF compare[<< v1, v2 >>] = "Less" THEN v2 ELSE v1

\* core::cmp::max_by(v1, v2, compare): v1 only when compare(v1, v2) is
\* Greater, v2 otherwise.
MaxByPair(v1, v2, compare) ==
    IF compare[<< v1, v2 >>] = "Greater" THEN v1 ELSE v2

\* Iterator::max_by folds max_by over the iterator from its first element.
RECURSIVE MaxByFold(_, _, _)
MaxByFold(acc, iter, compare) ==
    IF iter = << >> THEN acc
    ELSE MaxByFold(MaxByPair(acc, Head(iter), compare), Tail(iter), compare)

\* Iterator::max_by: None on an empty iterator.
MaxBy(iter, compare) ==
    IF iter = << >> THEN None
    ELSE Some(MaxByFold(Head(iter), Tail(iter), compare))

\* SelectQueueFamily without the filter.
SelectQueueFamily_Unfiltered(n, f, pref) ==
    MaxBy(QueueFamilies(n), pref)

\* self.device.queue_families().filter(filter).max_by(preference)
SelectQueueFamily(n, f, pref) ==
    MaxBy(IterFilter(QueueFamilies(n), f), pref)

\* The arguments setup_single_queue_device passes to Device::new.
DeviceNewRequest(phys, features, extensions, queue_family) ==
    [ physical_device |-> phys,
      features |-> features,
      extensions |-> extensions,
      queue_families |-> << [family |-> queue_family, priority |-> "1.0"] >> ]

\* What Device::new can answer: an error, or a device with its queues.
DeviceNewOutcomes ==
    { [ok |-> FALSE, queues |-> 0] }
    \cup { [ok |-> TRUE, queues |-> k] : k \in 0..MaxQueuesReturned }

\* SetupOutcome without the assert! on the second queue.
SetupOutcome_NoAssert(request, outcome) ==
    IF ~outcome.ok THEN Err
    ELSE IF outcome.queues = 0 THEN Panic
    ELSE Ok(Some([ device |-> request.physical_device,
                   queue |-> request.queue_families[1].family ]))

\* The rest of the method once Device::new has answered: `?` on an error,
\* unwrap() of the first queue, assert! that there is no second one.
SetupOutcome(request, outcome) ==
    IF ~outcome.ok THEN Err
    ELSE IF outcome.queues = 0 THEN Panic
    ELSE IF outcome.queues > 1 THEN Panic
    ELSE Ok(Some([ device |-> request.physical_device,
                   queue |-> request.queue_families[1].family ]))

\* The caller invokes setup_single_queue_device(features, extensions, filter,
\* preference) and the method runs to its end.
SetupSingleQueueDevice ==
    /\ queue_result = Pending
    /\ \E features \in SUBSET FeatureNames,
          extensions \in SUBSET DeviceExtensionNames,
          f \in FilterInputs(queue_families),
          pref \in PreferenceInputs(queue_families),
          outcome \in DeviceNewOutcomes :
          LET queue_family == SelectQueueFamily(queue_families, f, pref)
              request == DeviceNewRequest(wrapped_device, features,
                                          extensions, Unwrap(queue_family))
          IN  /\ queue_args' = [ features |-> features,
                                 extensions |-> extensions,
                                 filter |-> f,
                                 preference |-> pref ]
              /\ IF IsSome(queue_family)
                 THEN /\ device_new_calls' = Append(device_new_calls, request)
                      /\ device_new_returns' =
                            Append(device_new_returns, outcome)
                      /\ queue_result' = SetupOutcome(request, outcome)
                 ELSE /\ queue_result' = Ok(None)
                      /\ UNCHANGED << device_new_calls, device_new_returns >>
    /\ UNCHANGED << wrapped_device, queue_families >>
    /\ UNCHANGED << selectVars, filterVars, instanceVars, callbackVars >>

QueueInit ==
    /\ wrapped_device \in 1..MaxDevices
    /\ queue_families \in 0..MaxFamilies
    /\ queue_args = << >>
    /\ device_new_calls = << >>
    /\ device_new_returns = << >>
    /\ queue_result = Pending

\* setup_single_queue_device is not exercised.
QueueUnused ==
    /\ wrapped_device = 1
    /\ queue_families = 0
    /\ queue_args = << >>
    /\ device_new_calls = << >>
    /\ device_new_returns = << >>
    /\ queue_result = Ok(None)

\* ---------------------------------------------------------------------
\* easy_device_filter
\* ---------------------------------------------------------------------

\* vulkano::instance::Version
Version(major, minor, patch) ==
    [major |-> major, minor |-> minor, patch |-> patch]

\* Ord for Version: major first, then minor, then patch.
VersionCmp(a, b) ==
    IF a.major # b.major THEN Cmp(a.major, b.major)
    ELSE IF a.minor # b.minor THEN Cmp(a.minor, b.minor)
    ELSE Cmp(a.patch, b.patch)

\* let min_ver = Version { major: 1, minor: 0, patch: 0 };
min_ver == Version(1, 0, 0)

\* let max_ver = Version { major: 2, minor: 0, patch: 0 };
max_ver == Version(2, 0, 0)

\* VersionRejected with an inclusive upper end: 2.0.0 passes.
VersionRejected_Inclusive(api_version) ==
    \/ VersionCmp(api_version, min_ver) = "Less"
    \/ VersionCmp(api_version, max_ver) = "Greater"

\* (dev.api_version() < min_ver) || (dev.api_version() >= max_ver)
VersionRejected(api_version) ==
    \/ VersionCmp(api_version, min_ver) = "Less"
    \/ VersionCmp(api_version, max_ver) # "Less"

\* Features::superset_of
SupersetOf(supported, required) == required \subseteq supported

\* Difference with its operands swapped.
Difference_Swapped(extensions, supported) == supported \ extensions

\* DeviceExtensions::difference
Difference(extensions, supported) == extensions \ supported

\* dev.queue_families().find(&mut *queue_filter): the first family of the
\* device the queue filter accepts, if any.
FindQueueFamily(n, queue_filter) ==
    LET found == IterFilter(QueueFamilies(n), queue_filter)
    IN  IF found = << >> THEN None ELSE Some(Head(found))

\* PhysicalDeviceType values the model tells apart.
DeviceTypes == {"DiscreteGpu", "IntegratedGpu"}

\* The devices the closure can be called on, as far as it reads them.
FilterDevices ==
    [ api_version : { Version(major, minor, patch) :
                        major \in 0..MaxMajor, minor \in 0..MaxMinor,
                        patch \in 0..MaxPatch },
      supported_features : SUBSET FeatureNames,
      supported_extensions : SUBSET DeviceExtensionNames,
      queue_families : 0..MaxFamilies,
      ty : DeviceTypes ]

\* The arguments a caller can give to easy_device_filter.
FilterArgs ==
    [ features : SUBSET FeatureNames,
      extensions : SUBSET DeviceExtensionNames,
      queue_filter : FilterInputs(MaxFamilies),
      other_criteria : [DeviceTypes -> BOOLEAN] ]

\* The body of the closure easy_device_filter returns.
DevicePredicate(args, dev) ==
    IF VersionRejected(dev.api_version) THEN FALSE
    ELSE IF ~SupersetOf(dev.supported_features, args.features) THEN FALSE
    ELSE IF Difference(args.extensions, dev.supported_extensions) # {}
         THEN FALSE
    ELSE IF ~IsSome(FindQueueFamily(dev.queue_families, args.queue_filter))
         THEN FALSE
    ELSE args.other_criteria[dev.ty]

\* The caller invokes easy_device_filter: the closure captures the arguments.
EasyDeviceFilter ==
    /\ filter_args = << >>
    /\ filter_args' \in FilterArgs
    /\ UNCHANGED << filter_device, filter_accepts >>
    /\ UNCHANGED << selectVars, queueVars, instanceVars, callbackVars >>

\* The closure is called on a device.
CallDevicePredicate ==
    /\ filter_args # << >>
    /\ filter_device = << >>
    /\ \E dev \in FilterDevices :
          /\ filter_device' = dev
          /\ filter_accepts' = DevicePredicate(filter_args, dev)
    /\ UNCHANGED filter_args
    /\ UNCHANGED << selectVars, queueVars, instanceVars, callbackVars >>

FilterInit ==
    /\ filter_args = << >>
    /\ filter_device = << >>
    /\ filter_accepts = FALSE

\* ---------------------------------------------------------------------
\* EasyInstance::new and EasyInstance::with_debug_config
\* ---------------------------------------------------------------------

\* log::LevelFilter, in increasing order.
LevelFilters == << "Off", "Error", "Warn", "Info", "Debug", "Trace" >>

\* The position of a level in that order.
LevelRank(level) == CHOOSE i \in 1..Len(LevelFilters) : LevelFilters[i] = level

\* LevelAtLeast with a strict comparison.
LevelAtLeast_Strict(max_log_level, level) ==
    LevelRank(max_log_level) > LevelRank(level)

\* max_log_level >= level
LevelAtLeast(max_log_level, level) ==
    LevelRank(max_log_level) >= LevelRank(level)

\* The MessageTypes that EasyInstance::new builds from the maximum level.
LevelMessageTypes(max_log_level) ==
    [ error |-> LevelAtLeast(max_log_level, "Error"),
      warning |-> LevelAtLeast(max_log_level, "Warn"),
      performance_warning |-> LevelAtLeast(max_log_level, "Warn"),
      information |-> LevelAtLeast(max_log_level, "Info"),
      debug |-> LevelAtLeast(max_log_level, "Debug") ]

\* vulkano::instance::debug::MessageTypes
MessageTypes ==
    [ error : BOOLEAN, warning : BOOLEAN, performance_warning : BOOLEAN,
      information : BOOLEAN, debug : BOOLEAN ]

\* Names of instance extensions the model tells apart.
InstanceExtensionNames ==
    {"VK_KHR_surface", "VK_KHR_xcb_surface", "VK_EXT_debug_report"}

\* Insert that leaves the set as it was.
Insert_Forgotten(raw_extensions, name) == raw_extensions

\* HashSet::insert on RawInstanceExtensions.
Insert(raw_extensions, name) == raw_extensions \cup {name}

\* The calls into the binding that can fail.
BindingCalls ==
    { "InstanceExtensions::supported_by_core", "instance::layers_list",
      "Instance::new", "DebugCallback::new" }

\* A record of instance_calls.
BindingCall(fn, arg) == [fn |-> fn, arg |-> arg]

\* log_enabled!(Level::Info): the maximum level lets Info through and the
\* installed logger accepts the record.
InfoEnabled(max_level, logger_accepts) ==
    LevelAtLeast(max_level, "Info") /\ logger_accepts

\* WithDebugConfigBody that queries the capabilities whatever the logger says.
WithDebugConfigBody_AlwaysQueries(extensions, messages, info_enabled, fails) ==
    LET queries ==
            IF fails["InstanceExtensions::supported_by_core"]
            THEN << BindingCall("InstanceExtensions::supported_by_core", {}) >>
            ELSE << BindingCall("InstanceExtensions::supported_by_core", {}),
                    BindingCall("instance::layers_list", {}) >>
        query_failed ==
            \/ fails["InstanceExtensions::supported_by_core"]
            \/ fails["instance::layers_list"]
        raw_extensions == Insert(extensions, "VK_EXT_debug_report")
        create == BindingCall("Instance::new", raw_extensions)
        register == BindingCall("DebugCallback::new", messages)
        made ==
            IF query_failed THEN queries
            ELSE IF fails["Instance::new"] THEN queries \o << create >>
            ELSE queries \o << create, register >>
        returns == [i \in 1..Len(made) |-> ~fails[made[i].fn]]
    IN  IF query_failed \/ fails["Instance::new"]
           \/ fails["DebugCallback::new"]
        THEN [calls |-> made, returns |-> returns, result |-> Err]
        ELSE [calls |-> made, returns |-> returns,
              result |-> Ok(Some([ instance |-> raw_extensions,
                                   debug_callback |-> messages ]))]

\* The body of with_debug_config: the calls it makes and what it returns,
\* given which calls into the binding fail.
WithDebugConfigBody(extensions, messages, info_enabled, fails) ==
    LET queries ==
            IF ~info_enabled THEN << >>
            ELSE IF fails["InstanceExtensions::supported_by_core"]
            THEN << BindingCall("InstanceExtensions::supported_by_core", {}) >>
            ELSE << BindingCall("InstanceExtensions::supported_by_core", {}),
                    BindingCall("instance::layers_list", {}) >>
        query_failed ==
            /\ info_enabled
            /\ \/ fails["InstanceExtensions::supported_by_core"]
               \/ fails["instance::layers_list"]
        raw_extensions == Insert(extensions, "VK_EXT_debug_report")
        create == BindingCall("Instance::new", raw_extensions)
        register == BindingCall("DebugCallback::new", messages)
        made ==
            IF query_failed THEN queries
            ELSE IF fails["Instance::new"] THEN queries \o << create >>
            ELSE queries \o << create, register >>
        returns == [i \in 1..Len(made) |-> ~fails[made[i].fn]]
    IN  IF query_failed
        THEN [calls |-> made, returns |-> returns, result |-> Err]
        ELSE IF fails["Instance::new"]
        THEN [calls |-> made, returns |-> returns, result |-> Err]
        ELSE IF fails["DebugCallback::new"]
        THEN [calls |-> made, returns |-> returns, result |-> Err]
        ELSE [calls |-> made, returns |-> returns,
              result |-> Ok(Some([ instance |-> raw_extensions,
                                   debug_callback |-> messages ]))]

\* The caller invokes EasyInstance::with_debug_config.
WithDebugConfig ==
    /\ instance_result = Pending
    /\ \E extensions \in SUBSET InstanceExtensionNames,
          messages \in MessageTypes,
          logger_accepts \in BOOLEAN,
          fails \in [BindingCalls -> BOOLEAN] :
          LET body == WithDebugConfigBody(
                          extensions, messages,
                          InfoEnabled(log_max_level, logger_accepts), fails)
          IN  /\ instance_args' = [ constructor |-> "with_debug_config",
                                    max_log_level |-> log_max_level,
                                    info_enabled |->
                                        InfoEnabled(log_max_level,
                                                    logger_accepts),
                                    extensions |-> extensions,
                                    messages |-> messages ]
              /\ instance_calls' = body.calls
              /\ instance_returns' = body.returns
              /\ instance_result' = body.result
    /\ UNCHANGED log_max_level
    /\ UNCHANGED << selectVars, queueVars, filterVars, callbackVars >>

\* The caller invokes EasyInstance::new, which reads the maximum level and
\* hands the message types it implies to with_debug_config.
New ==
    /\ instance_result = Pending
    /\ \E extensions \in SUBSET InstanceExtensionNames,
          logger_accepts \in BOOLEAN,
          fails \in [BindingCalls -> BOOLEAN] :
          LET max_log_level == log_max_level
              messages == LevelMessageTypes(max_log_level)
              body == WithDebugConfigBody(
                          extensions, messages,
                          InfoEnabled(log_max_level, logger_accepts), fails)
          IN  /\ instance_args' = [ constructor |-> "new",
                                    max_log_level |-> max_log_level,
                                    info_enabled |->
                                        InfoEnabled(log_max_level,
                                                    logger_accepts),
                                    extensions |-> extensions,
                                    messages |-> messages ]
              /\ instance_calls' = body.calls
              /\ instance_returns' = body.returns
              /\ instance_result' = body.result
    /\ UNCHANGED log_max_level
    /\ UNCHANGED << selectVars, queueVars, filterVars, callbackVars >>

\* The application changes the logger's maximum level (log::set_max_level).
SetMaxLevel ==
    /\ \E i \in 1..Len(LevelFilters) :
          /\ LevelFilters[i] # log_max_level
          /\ log_max_level' = LevelFilters[i]
    /\ UNCHANGED << instance_args, instance_calls, instance_returns,
                    instance_result >>
    /\ UNCHANGED << selectVars, queueVars, filterVars, callbackVars >>

InstanceInit ==
    /\ log_max_level \in { LevelFilters[i] : i \in 1..Len(LevelFilters) }
    /\ instance_args = << >>
    /\ instance_calls = << >>
    /\ instance_returns = << >>
    /\ instance_result = Pending

\* The constructors are not exercised: the instance exists already.
InstanceUnused ==
    /\ log_max_level = "Off"
    /\ instance_args = << >>
    /\ instance_calls = << >>
    /\ instance_returns = << >>
    /\ instance_result = Err

\* ---------------------------------------------------------------------
\* The debug callback registered by with_debug_config
\* ---------------------------------------------------------------------

\* CallbackLevel that looks at the flags from the least severe one up.
CallbackLevel_LeastSevereFirst(ty) ==
    IF ty.debug THEN Some("Debug")
    ELSE IF ty.information THEN Some("Info")
    ELSE IF ty.performance_warning THEN Some("Warn")
    ELSE IF ty.warning THEN Some("Warn")
    ELSE IF ty.error THEN Some("Error")
    ELSE None

\* let log_level = match msg.ty { .. }: the first arm that matches; None
\* stands for the last arm, unimplemented!().
CallbackLevel(ty) ==
    IF ty.error THEN Some("Error")
    ELSE IF ty.performance_warning THEN Some("Warn")
    ELSE IF ty.warning THEN Some("Warn")
    ELSE IF ty.information THEN Some("Info")
    ELSE IF ty.debug THEN Some("Debug")
    ELSE None

\* The flag names the log! format string prints for msg.ty, in order.
CallbackTags(ty) ==
    (IF ty.error THEN << " ERRO" >> ELSE << >>)
    \o (IF ty.warning THEN << " WARN" >> ELSE << >>)
    \o (IF ty.performance_warning THEN << " PERF" >> ELSE << >>)
    \o (IF ty.information THEN << " INFO" >> ELSE << >>)
    \o (IF ty.debug THEN << " DEBG" >> ELSE << >>)

\* The Vulkan implementation hands a message to the registered callback.
DebugMessage ==
    /\ instance_result.tag = "Ok"
    /\ Len(callback_calls) < MaxMessages
    /\ \E ty \in MessageTypes :
          LET log_level == CallbackLevel(ty)
          IN  IF IsSome(log_level)
              THEN /\ log_calls' =
                         Append(log_calls, [ level |-> Unwrap(log_level),
                                             tags |-> CallbackTags(ty) ])
                   /\ callback_calls' =
                         Append(callback_calls,
                                [ty |-> ty, outcome |-> "returned"])
              ELSE /\ log_calls' = log_calls
                   /\ callback_calls' =
                         Append(callback_calls,
                                [ty |-> ty, outcome |-> "panicked"])
    /\ UNCHANGED << selectVars, queueVars, filterVars, instanceVars >>

\* No message has been handed to the callback.
CallbackInit ==
    /\ callback_calls = << >>
    /\ log_calls = << >>

\* An EasyInstance exists: with_debug_config has registered the callback for
\* some message types.
InstanceBuilt ==
    /\ log_max_level = "Off"
    /\ instance_args = << >>
    /\ instance_calls = << >>
    /\ instance_returns = << >>
    /\ \E messages \in MessageTypes :
          instance_result = Ok(Some([ instance |-> {"VK_EXT_debug_report"},
                                      debug_callback |-> messages ]))

\* ---------------------------------------------------------------------
\* Specifications
\* ---------------------------------------------------------------------

Init ==
    SelectInit /\ QueueUnused /\ FilterInit /\ InstanceUnused /\ CallbackInit

Next ==
    \/ SelectCall
    \/ SelectEnsureFails
    \/ SelectExamine
    \/ SelectReturn

Spec == Init /\ [][Next]_vars

InitQueue ==
    SelectUnused /\ QueueInit /\ FilterInit /\ InstanceUnused /\ CallbackInit

NextQueue == SetupSingleQueueDevice

SpecQueue == InitQueue /\ [][NextQueue]_vars

InitFilter ==
    SelectUnused /\ QueueUnused /\ FilterInit /\ InstanceUnused /\ CallbackInit

NextFilter ==
    \/ EasyDeviceFilter
    \/ CallDevicePredicate

SpecFilter == InitFilter /\ [][NextFilter]_vars

InitInstance ==
    SelectUnused /\ QueueUnused /\ FilterInit /\ InstanceInit /\ CallbackInit

NextInstance ==
    \/ New
    \/ WithDebugConfig
    \/ SetMaxLevel

SpecInstance == InitInstance /\ [][NextInstance]_vars

InitCallback ==
    SelectUnused /\ QueueUnused /\ FilterInit /\ InstanceBuilt /\ CallbackInit

NextCallback == DebugMessage

SpecCallback == InitCallback /\ [][NextCallback]_vars

\* ---------------------------------------------------------------------
\* Properties of select_physical_device
\* ---------------------------------------------------------------------

\* The preference is a strict weak ordering of the n candidates: irreflexive,
\* asymmetric, and both "greater than" and "tied with" are transitive.
IsStrictWeakOrdering(pref, n) ==
    /\ \A a \in 1..n : pref[<< a, a >>] = "Equal"
    /\ \A a, b \in 1..n :
          /\ (pref[<< a, b >>] = "Greater") <=> (pref[<< b, a >>] = "Less")
          /\ (pref[<< a, b >>] = "Equal") <=> (pref[<< b, a >>] = "Equal")
    /\ \A a, b, c \in 1..n :
          /\ (pref[<< a, b >>] = "Greater" /\ pref[<< b, c >>] = "Greater")
                => pref[<< a, c >>] = "Greater"
          /\ (pref[<< a, b >>] = "Equal" /\ pref[<< b, c >>] = "Equal")
                => pref[<< a, c >>] = "Equal"

AllRobust ==
    \A d \in DeviceIds(Len(physical_devices)) :
        physical_devices[d].robust_buffer_access

\* The devices of the enumeration that pass the caller's filter.
Retained == { d \in DeviceIds(Len(physical_devices)) : filter[d] }

SelectReturnedSome ==
    /\ pc = "done"
    /\ select_result.tag = "Ok"
    /\ IsSome(select_result.val)

\* C1: when every device reports robust buffer access, the preference is a
\* strict weak ordering and select_physical_device returns Some(d), d is an
\* enumerated device, filter(d) holds, and no enumerated device e that passes
\* the filter has preference(e, d) == Greater.
C1_SelectedIsGreatestRetained ==
    (SelectReturnedSome /\ AllRobust
        /\ IsStrictWeakOrdering(preference, Len(physical_devices)))
    => LET d == Unwrap(select_result.val)
       IN  /\ d \in DeviceIds(Len(physical_devices))
           /\ filter[d]
           /\ \A e \in Retained : preference[<< e, d >>] # "Greater"

\* C1 witness: three retained devices under a strict weak ordering that ranks
\* a later device strictly above the first, and the later one is returned.
C1_Witness ==
    /\ SelectReturnedSome
    /\ AllRobust
    /\ IsStrictWeakOrdering(preference, Len(physical_devices))
    /\ Cardinality(Retained) >= 2
    /\ Retained # DeviceIds(Len(physical_devices))
    /\ \E e \in Retained :
          /\ e < Unwrap(select_result.val)
          /\ preference[<< Unwrap(select_result.val), e >>] = "Greater"

\* C2, step part: the favorite changes only in a loop iteration on a device
\* that passes the filter, and then to that device; it changes when there was
\* no favorite yet, and otherwise exactly when preference(device, favorite)
\* is Greater.
C2_FavoriteStep ==
    /\ (favorite_device' # favorite_device) =>
          /\ pc = "loop"
          /\ next_device <= Len(physical_devices)
          /\ filter[next_device]
          /\ favorite_device' = Some(next_device)
          /\ IsSome(favorite_device) =>
                preference[<< next_device, Unwrap(favorite_device) >>]
                    = "Greater"
    /\ (/\ pc = "loop"
        /\ next_device' = next_device + 1
        /\ filter[next_device]
        /\ ~IsSome(favorite_device))
          => favorite_device' = Some(next_device)
    /\ (/\ pc = "loop"
        /\ next_device' = next_device + 1
        /\ filter[next_device]
        /\ IsSome(favorite_device)
        /\ preference[<< next_device, Unwrap(favorite_device) >>] = "Greater")
          => favorite_device' = Some(next_device)

\* C2, result part: under a strict weak ordering, no retained device earlier
\* in the enumeration than the returned one is tied with it.
C2_EarliestOfTied ==
    (SelectReturnedSome
        /\ IsStrictWeakOrdering(preference, Len(physical_devices)))
    => \A e \in Retained :
          preference[<< e, Unwrap(select_result.val) >>] = "Equal"
             => e >= Unwrap(select_result.val)

\* C2: the first device that passes the filter becomes the favorite, a later
\* one replaces it only on strictly Greater, and so the earliest of the
\* retained devices tied for greatest is returned.
C2_FirstSeenWinsTies ==
    /\ [][C2_FavoriteStep]_vars
    /\ []C2_EarliestOfTied

\* C2 witness: the returned device is tied with a later retained device.
C2_Witness ==
    /\ SelectReturnedSome
    /\ IsStrictWeakOrdering(preference, Len(physical_devices))
    /\ \E e \in Retained :
          /\ e > Unwrap(select_result.val)
          /\ preference[<< e, Unwrap(select_result.val) >>] = "Equal"
    /\ \E e \in Retained :
          preference[<< e, Unwrap(select_result.val) >>] = "Less"

\* C4: when every device reports robust buffer access, the call returns
\* Ok(None) exactly when no enumerated device passes the filter and Ok(Some(_))
\* exactly when one does, whatever the preference returns.
C4_NoneIffNothingRetained ==
    (pc = "done" /\ AllRobust) =>
        /\ select_result.tag = "Ok"
        /\ (select_result = Ok(None)) <=> (Retained = {})
        /\ IsSome(select_result.val) <=> (Retained # {})

\* C4 witness: a device is returned although the preference is no ordering.
C4_Witness ==
    /\ pc = "done"
    /\ AllRobust
    /\ Cardinality(Retained) >= 2
    /\ ~IsStrictWeakOrdering(preference, Len(physical_devices))
    /\ IsSome(select_result.val)

\* C4 witness of the empty enumeration.
C4_WitnessEmpty ==
    /\ pc = "done"
    /\ Len(physical_devices) = 0
    /\ select_result = Ok(None)

\* The entries of select_trace made by the given kind of call, in order.
TraceOf(op) ==
    LET IsOp(entry) == entry.op = op
    IN  SelectSeq(select_trace, IsOp)

\* The position of the first device without robust buffer access, and one
\* past the last device when every device has it.
FirstUnsupported ==
    LET n == Len(physical_devices)
        unsupported ==
            { d \in 1..n : ~physical_devices[d].robust_buffer_access }
    IN  IF unsupported = {} THEN n + 1
        ELSE CHOOSE d \in unsupported : \A e \in unsupported : d <= e

\* The number of preference calls expected for a set of filter-passing
\* devices: one less than their number, none when there is no such device.
ExpectedPreferenceCalls(passing) ==
    IF passing = {} THEN 0 ELSE Cardinality(passing) - 1

\* Every filter call directly follows the log of the same device, and every
\* preference call directly follows the filter call of the same device, which
\* passed the filter.
CallsWellPlaced ==
    \A j \in 1..Len(select_trace) :
        /\ (select_trace[j].op = "filter") =>
              /\ j > 1
              /\ select_trace[j - 1] = LogDevice(select_trace[j].device)
        /\ (select_trace[j].op = "preference") =>
              /\ j > 1
              /\ select_trace[j - 1] = CallFilter(select_trace[j].device)
              /\ filter[select_trace[j].device]
              /\ select_trace[j].other < select_trace[j].device
              /\ filter[select_trace[j].other]

\* C12 as stated: once the call is over, the filter has been invoked exactly
\* once per enumerated device, in enumeration order and after the device's
\* log, and the preference (number of filter-passing devices - 1) times, or
\* never when no device passes.
C12_OncePerEnumeratedDevice ==
    (pc = "done") =>
        /\ Len(TraceOf("filter")) = Len(physical_devices)
        /\ \A i \in 1..Len(TraceOf("filter")) : TraceOf("filter")[i].device = i
        /\ CallsWellPlaced
        /\ Len(TraceOf("preference")) = ExpectedPreferenceCalls(Retained)

\* C12 amended, state part: the same, counted over the devices in front of
\* the first one that lacks robust buffer access (all of them when the call
\* returns Ok).
C12_OncePerExaminedDevice ==
    (pc = "done") =>
        LET examined == 1..(FirstUnsupported - 1)
        IN  /\ Len(TraceOf("filter")) = FirstUnsupported - 1
            /\ \A i \in 1..Len(TraceOf("filter")) :
                  TraceOf("filter")[i].device = i
            /\ CallsWellPlaced
            /\ Len(TraceOf("preference"))
                  = ExpectedPreferenceCalls(Retained \cap examined)
            /\ (select_result.tag = "Ok") =>
                  /\ examined = DeviceIds(Len(physical_devices))
                  /\ Len(TraceOf("filter")) = Len(physical_devices)
                  /\ Len(TraceOf("preference"))
                        = ExpectedPreferenceCalls(Retained)

\* C12 amended, step part: an iteration that gets as far as the filter logs
\* the device, calls the filter on it, and calls the preference exactly when
\* the device passed and a favorite exists, on (device, current favorite).
C12_CallsOfIteration ==
    (pc = "loop" /\ next_device' = next_device + 1) =>
        LET added == SubSeq(select_trace', Len(select_trace) + 1,
                            Len(select_trace'))
            asks == filter[next_device] /\ IsSome(favorite_device)
        IN  /\ SubSeq(select_trace', 1, Len(select_trace)) = select_trace
            /\ Len(added) = IF asks THEN 3 ELSE 2
            /\ added[1] = LogDevice(next_device)
            /\ added[2] = CallFilter(next_device)
            /\ asks => (added[3] = CallPreference(next_device,
                                                  Unwrap(favorite_device)))

\* C12 amended: the filter is invoked once per device examined, in order and
\* after its log; the preference only for a filter-passing device while a
\* favorite exists, on (candidate, favorite), hence (filter-passing devices
\* examined - 1) times; the devices examined are all the enumerated ones
\* when every device reports robust buffer access.
C12_FilterAndPreferenceCalls ==
    /\ []C12_OncePerExaminedDevice
    /\ [][C12_CallsOfIteration]_vars

\* C12 witness: three devices were examined, two of them passed the filter
\* and one did not, and the preference was asked once.
C12_Witness ==
    /\ pc = "done"
    /\ select_result.tag = "Ok"
    /\ Len(physical_devices) = 3
    /\ Cardinality(Retained) = 2
    /\ ~filter[2]
    /\ Len(TraceOf("filter")) = 3
    /\ Len(TraceOf("preference")) = 1
    /\ TraceOf("preference")[1] = CallPreference(3, 1)

\* C13: when a device reports robust buffer access as unsupported, the call
\* returns Err at the first such device: the device is logged, the filter is
\* applied neither to it nor to a later device, no later device is examined,
\* and the favorite chosen so far is not returned.
C13_ErrAtUnsupportedDevice ==
    /\ next_device <= FirstUnsupported
    /\ \A j \in 1..Len(select_trace) :
          /\ select_trace[j].device <= FirstUnsupported
          /\ (select_trace[j].op # "log")
                => (select_trace[j].device < FirstUnsupported)
    /\ (pc = "done") => ((select_result = Err) <=> ~AllRobust)
    /\ (pc = "done" /\ ~AllRobust) =>
          /\ select_result = Err
          /\ next_device = FirstUnsupported
          /\ select_trace[Len(select_trace)] = LogDevice(FirstUnsupported)
          /\ Len(TraceOf("log")) = FirstUnsupported
          /\ Len(TraceOf("filter")) = FirstUnsupported - 1

\* C13 witness: the second of three devices lacks robust buffer access and
\* would not pass the filter; the first one passed it and was the favorite,
\* yet Err is returned and the third device was never examined.
C13_Witness ==
    /\ pc = "done"
    /\ Len(physical_devices) = 3
    /\ FirstUnsupported = 2
    /\ physical_devices[3].robust_buffer_access
    /\ filter[1]
    /\ ~filter[2]
    /\ filter[3]
    /\ favorite_device = Some(1)
    /\ select_result = Err
    /\ Len(select_trace) = 3

\* ---------------------------------------------------------------------
\* Properties of setup_single_queue_device
\* ---------------------------------------------------------------------

\* The queue families that pass the caller's filter.
RetainedFamilies == { q \in 1..queue_families : queue_args.filter[q] }

\* The method has run and asked Device::new for a device.
SetupRequested ==
    /\ queue_result # Pending
    /\ Len(device_new_calls) = 1

\* The queue family of the request made to Device::new.
ChosenFamily == device_new_calls[1].queue_families[1].family

\* The chosen family is greatest among the retained ones.
ChosenIsGreatest ==
    /\ ChosenFamily \in RetainedFamilies
    /\ \A e \in RetainedFamilies :
          queue_args.preference[<< e, ChosenFamily >>] # "Greater"

\* C3 as stated: under a strict weak ordering the chosen queue family is the
\* first, in enumeration order, of the retained families tied for greatest.
C3_FirstOfTiedFamilies ==
    (SetupRequested
        /\ IsStrictWeakOrdering(queue_args.preference, queue_families))
    => /\ ChosenIsGreatest
       /\ \A e \in RetainedFamilies :
             queue_args.preference[<< e, ChosenFamily >>] = "Equal"
                => e >= ChosenFamily

\* C3 amended: under a strict weak ordering the chosen queue family is
\* greatest among the retained families and is the last, in enumeration
\* order, of those tied for greatest.
C3_LastOfTiedFamilies ==
    (SetupRequested
        /\ IsStrictWeakOrdering(queue_args.preference, queue_families))
    => /\ ChosenIsGreatest
       /\ \A e \in RetainedFamilies :
             queue_args.preference[<< e, ChosenFamily >>] = "Equal"
                => e <= ChosenFamily

\* C3 witness: the chosen family is tied with an earlier retained family and
\* strictly above another one.
C3_Witness ==
    /\ SetupRequested
    /\ IsStrictWeakOrdering(queue_args.preference, queue_families)
    /\ \E e \in RetainedFamilies :
          /\ e < ChosenFamily
          /\ queue_args.preference[<< e, ChosenFamily >>] = "Equal"
    /\ \E e \in RetainedFamilies :
          queue_args.preference[<< e, ChosenFamily >>] = "Less"

\* C5: setup_single_queue_device returns Ok(None) exactly when no queue family
\* passes the filter, and then Device::new has not been called.
C5_NoneIffNoFamilyRetained ==
    (queue_result # Pending) =>
        /\ (queue_result = Ok(None)) <=> (RetainedFamilies = {})
        /\ (queue_result = Ok(None)) => (device_new_calls = << >>)

\* C5 witness: the device has queue families, none passes the filter, and the
\* method has returned Ok(None).
C5_Witness ==
    /\ queue_families >= 2
    /\ queue_result = Ok(None)
    /\ RetainedFamilies = {}
    /\ queue_args.features # {}

\* C6: when a queue family passes the filter, Device::new is asked once, for
\* the wrapped device, the caller's features and extensions, and one queue of
\* a retained family at priority 1.0; the method returns Ok(Some(..)) only
\* when Device::new succeeded with exactly one queue, Err when it failed, and
\* panics on any other number of queues.
C6_SingleQueueRequest ==
    (queue_result # Pending /\ RetainedFamilies # {}) =>
        /\ Len(device_new_calls) = 1
        /\ Len(device_new_returns) = 1
        /\ device_new_calls[1].physical_device = wrapped_device
        /\ device_new_calls[1].features = queue_args.features
        /\ device_new_calls[1].extensions = queue_args.extensions
        /\ Len(device_new_calls[1].queue_families) = 1
        /\ device_new_calls[1].queue_families[1].family \in RetainedFamilies
        /\ device_new_calls[1].queue_families[1].priority = "1.0"
        /\ (queue_result.tag = "Ok") <=>
              (device_new_returns[1].ok /\ device_new_returns[1].queues = 1)
        /\ (queue_result.tag = "Ok") =>
              /\ IsSome(queue_result.val)
              /\ Unwrap(queue_result.val).device = wrapped_device
              /\ Unwrap(queue_result.val).queue = ChosenFamily
        /\ (queue_result = Err) <=> ~device_new_returns[1].ok
        /\ (queue_result = Panic) <=>
              (device_new_returns[1].ok /\ device_new_returns[1].queues # 1)

\* C6 witness: a device and its single queue are returned for a request made
\* with features and extensions, on a device that is not the first one.
C6_Witness ==
    /\ queue_result.tag = "Ok"
    /\ IsSome(queue_result.val)
    /\ Cardinality(RetainedFamilies) >= 2
    /\ wrapped_device > 1
    /\ queue_args.features # {}
    /\ queue_args.extensions # {}

\* C6 witness of the panic: Device::new answered with two queues.
C6_WitnessPanic ==
    /\ queue_result = Panic
    /\ device_new_returns[1].queues = 2

\* ---------------------------------------------------------------------
\* Properties of easy_device_filter
\* ---------------------------------------------------------------------

\* The closure has been called on a device.
PredicateCalled == filter_device # << >>

\* a < b in the lexicographic order of (major, minor, patch).
LexLess(a, b) ==
    \/ a.major < b.major
    \/ a.major = b.major /\ a.minor < b.minor
    \/ a.major = b.major /\ a.minor = b.minor /\ a.patch < b.patch

\* 1.0.0 <= v < 2.0.0
InAcceptedRange(v) ==
    /\ ~LexLess(v, Version(1, 0, 0))
    /\ LexLess(v, Version(2, 0, 0))

\* The four criteria of the predicate besides the API version.
OtherCriteriaHold ==
    /\ filter_args.features \subseteq filter_device.supported_features
    /\ \A e \in filter_args.extensions :
          e \in filter_device.supported_extensions
    /\ \E q \in 1..filter_device.queue_families : filter_args.queue_filter[q]
    /\ filter_args.other_criteria[filter_device.ty]

\* C7: the predicate accepts a device exactly when its API version is in the
\* accepted range, its features include the required ones, it supports every
\* required extension, one of its queue families passes queue_filter and
\* other_criteria holds of it.
C7_AcceptsIffAllFive ==
    PredicateCalled =>
        (filter_accepts <=>
            (InAcceptedRange(filter_device.api_version) /\ OtherCriteriaHold))

\* C7 witness: a device is accepted against non-empty requirements, with a
\* queue family that is not its first one.
C7_Witness ==
    /\ PredicateCalled
    /\ filter_accepts
    /\ filter_args.features # {}
    /\ filter_args.extensions # {}
    /\ filter_device.supported_features # filter_args.features
    /\ ~filter_args.queue_filter[1]
    /\ \E ty \in DeviceTypes : ~filter_args.other_criteria[ty]

\* C8: the version check passes exactly for the versions 1.x.y: with major 1
\* the predicate is decided by the other criteria alone, and with major 0 or
\* major >= 2 it is false whatever they are.
C8_VersionOneOnly ==
    PredicateCalled =>
        /\ InAcceptedRange(filter_device.api_version)
              <=> (filter_device.api_version.major = 1)
        /\ (filter_device.api_version.major = 1)
              => (filter_accepts <=> OtherCriteriaHold)
        /\ (filter_device.api_version.major # 1) => ~filter_accepts

\* C8 witness: a device of version 1.1.1 is accepted.
C8_Witness ==
    /\ PredicateCalled
    /\ filter_device.api_version = Version(1, 1, 1)
    /\ filter_accepts

\* C8 witnesses of the rejections: versions 0.1.1 and 2.0.0 with every other
\* criterion satisfied.
C8_WitnessBelow ==
    /\ PredicateCalled
    /\ filter_device.api_version = Version(0, 1, 1)
    /\ OtherCriteriaHold
    /\ ~filter_accepts

C8_WitnessAbove ==
    /\ PredicateCalled
    /\ filter_device.api_version = Version(2, 0, 0)
    /\ OtherCriteriaHold
    /\ ~filter_accepts

\* ---------------------------------------------------------------------
\* Properties of the EasyInstance constructors
\* ---------------------------------------------------------------------

\* The positions of instance_calls at which the given function was called.
CallsOf(fn) ==
    { i \in 1..Len(instance_calls) : instance_calls[i].fn = fn }

\* A constructor has run as far as creating the instance.
InstanceCreationCalled ==
    /\ instance_args # << >>
    /\ CallsOf("Instance::new") # {}

\* C9: the extension set passed to Instance::new is the caller's set plus
\* VK_EXT_debug_report: the extension is present, no extension of the caller
\* is missing, nothing else is added, and a caller's set that holds the
\* extension already is passed as it is.
C9_DebugReportAlwaysEnabled ==
    InstanceCreationCalled =>
        \A i \in CallsOf("Instance::new") :
            LET passed == instance_calls[i].arg
                given == instance_args.extensions
            IN  /\ "VK_EXT_debug_report" \in passed
                /\ \A e \in given : e \in passed
                /\ \A e \in passed : e \in given \/ e = "VK_EXT_debug_report"
                /\ ("VK_EXT_debug_report" \in given) => (passed = given)
                /\ ("VK_EXT_debug_report" \notin given)
                      => (Cardinality(passed) = Cardinality(given) + 1)

\* C9 witness: EasyInstance::new created an instance from a caller's set
\* that has another extension and lacks VK_EXT_debug_report.
C9_Witness ==
    /\ InstanceCreationCalled
    /\ instance_args.constructor = "new"
    /\ instance_args.extensions = {"VK_KHR_surface"}
    /\ instance_result.tag = "Ok"

\* C9 witness of the idempotent insertion: the caller's set holds
\* VK_EXT_debug_report already.
C9_WitnessIdempotent ==
    /\ InstanceCreationCalled
    /\ instance_args.constructor = "with_debug_config"
    /\ instance_args.extensions = {"VK_KHR_surface", "VK_EXT_debug_report"}

\* The message types C10 expects of a maximum level.
ExpectedMessageTypes(level) ==
    [ error |-> level \in {"Error", "Warn", "Info", "Debug", "Trace"},
      warning |-> level \in {"Warn", "Info", "Debug", "Trace"},
      performance_warning |-> level \in {"Warn", "Info", "Debug", "Trace"},
      information |-> level \in {"Info", "Debug", "Trace"},
      debug |-> level \in {"Debug", "Trace"} ]

\* The message types that are enabled in m.
EnabledTypes(m) ==
    { t \in {"error", "warning", "performance_warning", "information",
             "debug"} : m[t] }

\* C10, state part: the message types EasyInstance::new asks for, passes to
\* DebugCallback::new and keeps registered are those of the maximum level it
\* read; they grow with the level, none is enabled at Off, and warning and
\* performance_warning are equal.
C10_MessagesOfLevel ==
    (instance_args # << >> /\ instance_args.constructor = "new") =>
        LET level == instance_args.max_log_level
            asked == instance_args.messages
        IN  /\ asked = ExpectedMessageTypes(level)
            /\ asked.warning = asked.performance_warning
            /\ (level = "Off") => (EnabledTypes(asked) = {})
            /\ \A i \in 1..Len(LevelFilters) :
                  (i <= LevelRank(level)) =>
                      EnabledTypes(LevelMessageTypes(LevelFilters[i]))
                          \subseteq EnabledTypes(asked)
            /\ \A i \in CallsOf("DebugCallback::new") :
                  instance_calls[i].arg = asked
            /\ (instance_result.tag = "Ok") =>
                  (Unwrap(instance_result.val).debug_callback = asked)

\* C10, step part: EasyInstance::new reads the maximum level when it is
\* called, and a change of the level after the constructor has returned
\* leaves the arguments, the calls made and the registered set as they were.
C10_LevelReadAtCall ==
    /\ (instance_result = Pending /\ instance_result' # Pending)
          => (instance_args'.max_log_level = log_max_level)
    /\ (instance_result # Pending) =>
          /\ instance_result' = instance_result
          /\ instance_args' = instance_args
          /\ instance_calls' = instance_calls

\* C10: EasyInstance::new enables the debug message types of the logger's
\* maximum level at call time, and later changes of the level do not change
\* the registered set.
C10_MessagesFollowLevelAtCall ==
    /\ []C10_MessagesOfLevel
    /\ [][C10_LevelReadAtCall]_vars

\* C10 witness: an instance built by new at level Warn, whose registered set
\* is still that of Warn after the level was raised to Trace.
C10_Witness ==
    /\ instance_args # << >>
    /\ instance_args.constructor = "new"
    /\ instance_result.tag = "Ok"
    /\ instance_args.max_log_level = "Warn"
    /\ log_max_level = "Trace"
    /\ EnabledTypes(Unwrap(instance_result.val).debug_callback)
          = {"error", "warning", "performance_warning"}

\* The constructor has returned.
ConstructorReturned ==
    /\ instance_args # << >>
    /\ instance_result # Pending

\* The functions of the binding a complete run calls, in order.
ExpectedCalls(info_enabled) ==
    (IF info_enabled
     THEN << "InstanceExtensions::supported_by_core", "instance::layers_list" >>
     ELSE << >>)
    \o << "Instance::new", "DebugCallback::new" >>

\* C11: the constructor runs the capability queries (only when Info logging
\* is enabled), then the instance creation, then the debug-callback
\* registration, and stops at the first step that fails; it returns an
\* EasyInstance exactly when every step ran and succeeded and Err otherwise,
\* and the callback is registered only on an instance that was created.
C11_StepsInOrderAllOrNothing ==
    ConstructorReturned =>
        LET expected == ExpectedCalls(instance_args.info_enabled)
            n == Len(instance_calls)
        IN  /\ n >= 1
            /\ n <= Len(expected)
            /\ Len(instance_returns) = n
            /\ \A i \in 1..n : instance_calls[i].fn = expected[i]
            /\ \A i \in 1..(n - 1) : instance_returns[i]
            /\ instance_result.tag \in {"Ok", "Err"}
            /\ (instance_result.tag = "Ok") <=>
                  (n = Len(expected) /\ instance_returns[n])
            /\ (instance_result.tag = "Ok") => IsSome(instance_result.val)
            /\ (instance_result.tag = "Err") =>
                  (~instance_returns[n] /\ instance_result.val = None)
            /\ (CallsOf("InstanceExtensions::supported_by_core") # {})
                  <=> instance_args.info_enabled
            /\ \A i \in CallsOf("DebugCallback::new") :
                  \E j \in CallsOf("Instance::new") :
                      j < i /\ instance_returns[j]

\* C11 witness: with Info logging enabled both queries succeeded, the
\* instance creation failed, and Err came back without a registration.
C11_Witness ==
    /\ ConstructorReturned
    /\ instance_args.info_enabled
    /\ Len(instance_calls) = 3
    /\ ~instance_returns[3]
    /\ instance_result = Err
    /\ CallsOf("DebugCallback::new") = {}

\* C11 witness of the complete run without Info logging: two calls, and an
\* EasyInstance is returned.
C11_WitnessQuiet ==
    /\ ConstructorReturned
    /\ ~instance_args.info_enabled
    /\ Len(instance_calls) = 2
    /\ instance_result.tag = "Ok"

\* ---------------------------------------------------------------------
\* Properties of the debug callback
\* ---------------------------------------------------------------------

\* The level C14 expects for a message of type ty that has a flag set.
ExpectedLevel(ty) ==
    IF ty.error THEN "Error"
    ELSE IF ty.performance_warning \/ ty.warning THEN "Warn"
    ELSE IF ty.information THEN "Info"
    ELSE "Debug"

\* The message has no flag set.
NoFlag(ty) ==
    ~(ty.error \/ ty.warning \/ ty.performance_warning \/ ty.information
        \/ ty.debug)

\* The calls of the callback that returned, in order.
ReturnedCalls ==
    LET Returned(call) == call.outcome = "returned"
    IN  SelectSeq(callback_calls, Returned)

\* C14, state part: a call of the callback panics exactly when the message
\* has no flag set, and the calls that returned made one log! invocation
\* each, in order, at the level given by the priority error, then
\* performance_warning or warning, then information, then debug.
C14_LevelOfEachMessage ==
    /\ \A i \in 1..Len(callback_calls) :
          (callback_calls[i].outcome = "panicked")
              <=> NoFlag(callback_calls[i].ty)
    /\ Len(log_calls) = Len(ReturnedCalls)
    /\ \A i \in 1..Len(log_calls) :
          log_calls[i].level = ExpectedLevel(ReturnedCalls[i].ty)

\* C14, step part: a message with no flag set leaves the log as it was.
C14_NoRecordOnPanic ==
    (/\ Len(callback_calls') = Len(callback_calls) + 1
     /\ NoFlag(callback_calls'[Len(callback_calls')].ty))
        => (log_calls' = log_calls)

\* C14: the debug callback logs each message at the level fixed by the
\* priority of its type flags, and a message without any flag makes it
\* panic without a log record.
C14_CallbackLevelByPriority ==
    /\ []C14_LevelOfEachMessage
    /\ [][C14_NoRecordOnPanic]_vars

\* C14 witness: a message flagged warning, information and debug was logged
\* at Warn, and a message without flags then made the callback panic.
C14_Witness ==
    /\ Len(callback_calls) = 2
    /\ callback_calls[1].ty = [ error |-> FALSE, warning |-> TRUE,
                                performance_warning |-> FALSE,
                                information |-> TRUE, debug |-> TRUE ]
    /\ callback_calls[2].outcome = "panicked"
    /\ Len(log_calls) = 1
    /\ log_calls[1].level = "Warn"

====
